---- MODULE Spec2Model ----
(***************************************************************************)
(* Model of the gateway2 plugin registry (package registry) and of the     *)
(* gateway deployer (package deployer): value derivation, chart render,    *)
(* manifest decoding, namespace/owner stamping and apply.                  *)
(*                                                                         *)
(* Strings whose content is inspected (the image override) are sequences   *)
(* of one-character strings; all other strings are opaque TLA+ strings.    *)
(* Each component has its own specification; a specification leaves the    *)
(* variables of the other components at their idle values.                 *)
(***************************************************************************)
EXTENDS Integers, Sequences, FiniteSets, TLC

VARIABLES
    pc,             \* position of the single caller thread
    \* ---- package registry
    allPlugins,     \* argument of NewPluginRegistry
    registry,       \* the PluginRegistry it returned
    \* ---- getDeployerImageValues
    image,          \* value of the GlooGatewayDeployerImage environment variable
    imageValues,    \* the map getDeployerImageValues returned
    \* ---- port derivation
    listeners,      \* gw.Spec.Listeners
    portsAny,       \* the "ports" value handed to helm
    \* ---- ConvertYAMLToObjects
    yamlData,       \* the manifest, a sequence of documents
    yamlRet,        \* [objs, err] returned
    \* ---- Deployer
    chart,          \* d.chart, loaded once by NewDeployer
    inputs,         \* d.inputs
    env,            \* process environment: the image override value
    releases,       \* content of the helm release storage created by the last Render
    op,             \* the Deployer method running or last run
    gw,             \* its Gateway argument
    objs,           \* objects rendered by the running/last method
    err,            \* error it returned (NoErr for nil)
    idx,            \* DeployObjs loop position
    patchLog,       \* Patch calls issued by the running/last DeployObjs
    cluster,        \* objects applied in the cluster
    gvks,           \* result of the last GetGvksToWatch
    history         \* completed Deploy calls, oldest first

registryVars == <<allPlugins, registry>>
imageVars    == <<image, imageValues>>
portVars     == <<listeners, portsAny>>
yamlVars     == <<yamlData, yamlRet>>
deployVars   == <<chart, inputs, env, releases, op, gw, objs, err, idx,
                  patchLog, cluster, gvks, history>>
vars == <<pc, registryVars, imageVars, portVars, yamlVars, deployVars>>

\* ------------------------------------------------------------------ bounds
MaxPlugins   == 3
MaxImageLen  == 5
MaxListeners == 3
MaxDocs      == 3
MaxDeploys   == 2

\* All sequences over S of length at most n.
SeqsUpTo(S, n) == UNION {[1..k -> S] : k \in 0..n}

\* ------------------------------------------------------------- error values
\* An error is its wrap chain, outermost message first, together with the
\* identifiers its text spells out.  nil is the empty chain.
NoErr == [chain |-> <<>>, mentions |-> {}]

\* fmt.Errorf(msg + ": %w", e) with the extra identifiers formatted into msg.
Wrap(msg, ids, e) == [chain |-> <<msg>> \o e.chain, mentions |-> ids \cup e.mentions]

\* ================================================================ registry
\* The plugins the model registers: the capability flags stand for the
\* dynamic type assertions plugin.(RoutePlugin), plugin.(PostTranslationPlugin).
Plugin(id, route, post) == [id |-> id, route |-> route, post |-> post]
PluginA == Plugin("A", TRUE, FALSE)
PluginB == Plugin("B", TRUE, TRUE)
PluginC == Plugin("C", FALSE, FALSE)
PluginD == Plugin("D", FALSE, TRUE)
Plugins == {PluginA, PluginB, PluginC, PluginD}

\* Mutant: the second capability test hangs off the first one as an else-branch.
RECURSIVE classifyExclusive(_, _, _, _)
classifyExclusive(ps, i, routePlugins, postTranslationPlugins) ==
    IF i > Len(ps)
    THEN [routePlugins |-> routePlugins,
          postTranslationPlugins |-> postTranslationPlugins]
    ELSE IF ps[i].route
         THEN classifyExclusive(ps, i + 1, Append(routePlugins, ps[i]),
                                postTranslationPlugins)
         ELSE classifyExclusive(ps, i + 1, routePlugins,
                  IF ps[i].post THEN Append(postTranslationPlugins, ps[i])
                                ELSE postTranslationPlugins)

\* The range loop of NewPluginRegistry, from index i on.
RECURSIVE classify(_, _, _, _)
classify(ps, i, routePlugins, postTranslationPlugins) ==
    IF i > Len(ps)
    THEN [routePlugins |-> routePlugins,
          postTranslationPlugins |-> postTranslationPlugins]
    ELSE classify(ps, i + 1,
                  IF ps[i].route THEN Append(routePlugins, ps[i]) ELSE routePlugins,
                  IF ps[i].post THEN Append(postTranslationPlugins, ps[i])
                                ELSE postTranslationPlugins)

NewPluginRegistryExclusive(ps) == classifyExclusive(ps, 1, <<>>, <<>>)

NewPluginRegistry(ps) == classify(ps, 1, <<>>, <<>>)

GetRoutePlugins(p) == p.routePlugins

GetPostTranslationPlugins(p) == p.postTranslationPlugins

\* ========================================================== image override
Chars == {"r", "t", ":"}

Contains(s, c) == \E i \in 1..Len(s) : s[i] = c

IndexOf(s, c) == CHOOSE i \in 1..Len(s) : s[i] = c /\ \A j \in 1..(i - 1) : s[j] # c

\* strings.Split(s, sep) for a one-character separator.
RECURSIVE Split(_, _)
Split(s, sep) ==
    IF ~Contains(s, sep)
    THEN <<s>>
    ELSE LET i == IndexOf(s, sep)
         IN  <<SubSeq(s, 1, i - 1)>> \o Split(SubSeq(s, i + 1, Len(s)), sep)

defaultImageValues == [tag |-> <<>>]

\* Mutant: splits into at most two parts (strings.SplitN(image, ":", 2)).
getDeployerImageValuesSplitN(img) ==
    IF img = <<>>
    THEN defaultImageValues
    ELSE IF ~Contains(img, ":")
         THEN defaultImageValues
         ELSE LET i == IndexOf(img, ":")
              IN  [repository |-> SubSeq(img, 1, i - 1),
                   tag |-> SubSeq(img, i + 1, Len(img))]

\* getDeployerImageValues, with the environment value it reads as parameter.
getDeployerImageValues(img) ==
    IF img = <<>>
    THEN defaultImageValues
    ELSE LET imageParts == Split(img, ":")
         IN  IF Len(imageParts) # 2
             THEN defaultImageValues
             ELSE [repository |-> imageParts[1], tag |-> imageParts[2]]

\* ========================================================= port derivation
ListenerPorts == {80, 443, 9090}
ListenerNames == {"a", "b", "c"}

\* api.Listener: the fields the deployer can see.  Port is an int32 that the
\* Gateway API admits only in 1..65535.
Listeners ==
    {[Port |-> p, Name |-> n, Protocol |-> IF p = 443 THEN "HTTPS" ELSE "HTTP"] :
        p \in ListenerPorts, n \in ListenerNames}

\* The Go conversion uint16(x) of a non-negative integer.
uint16(x) == x % (2 ^ 16)

\* ports.TranslatePort: privileged ports are moved up, the others kept.
TranslatePort(u) == IF u >= 1024 THEN u ELSE uint16(u + 8000)

gatewayPort(port, protocol, name, targetPort) ==
    [Port |-> port, Protocol |-> protocol, Name |-> name, TargetPort |-> targetPort]

HasPort(gwPorts, listenerPort) == \E i \in 1..Len(gwPorts) : gwPorts[i].Port = listenerPort

\* Mutant: the duplicate test is missing, every listener yields an entry.
RECURSIVE gwPortsLoopNoSkip(_, _, _)
gwPortsLoopNoSkip(ls, i, gwPorts) ==
    IF i > Len(ls)
    THEN gwPorts
    ELSE LET listenerPort == uint16(ls[i].Port)
         IN  gwPortsLoopNoSkip(ls, i + 1,
                 Append(gwPorts, gatewayPort(listenerPort, "TCP", ls[i].Name,
                                             TranslatePort(listenerPort))))

\* The listener loop of renderChartToObjects, from index i on.
RECURSIVE gwPortsLoop(_, _, _)
gwPortsLoop(ls, i, gwPorts) ==
    IF i > Len(ls)
    THEN gwPorts
    ELSE LET listenerPort == uint16(ls[i].Port)
         IN  IF HasPort(gwPorts, listenerPort)
             THEN gwPortsLoop(ls, i + 1, gwPorts)
             ELSE gwPortsLoop(ls, i + 1,
                      Append(gwPorts, gatewayPort(listenerPort, "TCP", ls[i].Name,
                                                  TranslatePort(listenerPort))))

gwPortsOfNoSkip(ls) == gwPortsLoopNoSkip(ls, 1, <<>>)

gwPortsOf(ls) == gwPortsLoop(ls, 1, <<>>)

\* jsonConvert: json.Marshal of []gatewayPort under its field tags, then
\* json.Unmarshal into []any: one map per entry, keyed by the tag names.
jsonConvert(in) ==
    [i \in 1..Len(in) |->
        [port |-> in[i].Port, protocol |-> in[i].Protocol,
         name |-> in[i].Name, targetPort |-> in[i].TargetPort]]

\* ======================================================= manifest decoding
\* (group, version, kind)
GVK(g, v, k) == <<g, v, k>>
EmptyGVK      == GVK("", "", "")
DeploymentGVK == GVK("apps", "v1", "Deployment")
ServiceGVK    == GVK("", "v1", "Service")
StatusGVK     == GVK("", "v1", "Status")
WidgetGVK     == GVK("example.io", "v1", "Widget")
OldDeployGVK  == GVK("apps", "v1beta1", "Deployment")

\* runtime.Scheme: the kinds scheme.New can build, and those among them whose
\* Go type is a client.Object.
scheme == [known |-> {DeploymentGVK, ServiceGVK, StatusGVK},
           clientObjects |-> {DeploymentGVK, ServiceGVK}]

\* One document of a manifest.  shape is "object", "empty" (no fields) or
\* "malformed"; convertible tells whether FromUnstructured accepts the fields.
Document(shape, gvk, name, namespace, owners, convertible, content) ==
    [shape |-> shape, gvk |-> gvk, name |-> name, namespace |-> namespace,
     ownerReferences |-> owners, convertible |-> convertible, content |-> content]

EmptyDocument     == Document("empty", EmptyGVK, "", "", <<>>, FALSE, "")
MalformedDocument == Document("malformed", EmptyGVK, "", "", <<>>, FALSE, "")

\* decoder.Decode(&obj) of a well-formed document: the unstructured object.
Decode(doc) ==
    [typed |-> FALSE, empty |-> doc.shape = "empty", gvk |-> doc.gvk,
     name |-> doc.name, namespace |-> doc.namespace,
     ownerReferences |-> doc.ownerReferences, content |-> doc.content]

\* FromUnstructured into the scheme's Go type: same fields, typed object.
FromUnstructured(obj) == [obj EXCEPT !.typed = TRUE]

DecodeError == [chain |-> <<"yaml: malformed document">>, mentions |-> {}]

\* Mutant: the empty-document test is replaced by dropping every document
\* the scheme cannot build.
RECURSIVE convertLoopDropUnknown(_, _, _, _)
convertLoopDropUnknown(sch, docs, i, acc) ==
    IF i > Len(docs)
    THEN [objs |-> acc, err |-> NoErr]
    ELSE IF docs[i].shape = "malformed"
    THEN [objs |-> <<>>, err |-> DecodeError]
    ELSE LET obj == Decode(docs[i])
         IN  IF obj.gvk \in sch.known
             THEN IF obj.gvk \in sch.clientObjects /\ docs[i].convertible
                  THEN convertLoopDropUnknown(sch, docs, i + 1,
                                              Append(acc, FromUnstructured(obj)))
                  ELSE convertLoopDropUnknown(sch, docs, i + 1, Append(acc, obj))
             ELSE convertLoopDropUnknown(sch, docs, i + 1, acc)

\* The decode loop of ConvertYAMLToObjects, from document i on.
RECURSIVE convertLoop(_, _, _, _)
convertLoop(sch, docs, i, acc) ==
    IF i > Len(docs)
    THEN [objs |-> acc, err |-> NoErr]                       \* io.EOF
    ELSE IF docs[i].shape = "malformed"
    THEN [objs |-> <<>>, err |-> DecodeError]                \* return nil, err
    ELSE LET obj == Decode(docs[i])
         IN  IF obj.gvk \in sch.known                        \* scheme.New(gvk)
             THEN IF obj.gvk \in sch.clientObjects /\ docs[i].convertible
                  THEN convertLoop(sch, docs, i + 1, Append(acc, FromUnstructured(obj)))
                  ELSE convertLoop(sch, docs, i + 1, Append(acc, obj))
             ELSE IF obj.empty
                  THEN convertLoop(sch, docs, i + 1, acc)
                  ELSE convertLoop(sch, docs, i + 1, Append(acc, obj))

ConvertYAMLToObjectsDropUnknown(sch, docs) == convertLoopDropUnknown(sch, docs, 1, <<>>)

ConvertYAMLToObjects(sch, docs) == convertLoop(sch, docs, 1, <<>>)

\* ================================================================ deployer
\* api.Gateway: identity, type meta and listeners.
Gateway(name, ns, uid, kind, apiVersion, ls) ==
    [Name |-> name, Namespace |-> ns, UID |-> uid, Kind |-> kind,
     APIVersion |-> apiVersion, Listeners |-> ls]

Listener(p, n) == [Port |-> p, Name |-> n, Protocol |-> IF p = 443 THEN "HTTPS" ELSE "HTTP"]

GwWeb   == Gateway("web", "ns1", "uid-1", "Gateway", "gateway.networking.k8s.io/v1",
                   <<Listener(80, "a"), Listener(80, "b"), Listener(443, "c")>>)
\* a Gateway read without type meta and without listeners
GwBare  == Gateway("edge", "ns2", "uid-2", "", "", <<>>)
Gateways == {GwWeb, GwBare}

\* The synthetic Gateway of GetGvksToWatch.
fakeGw == Gateway("default", "default", "", "", "", <<>>)

OwnerReference(kind, apiVersion, controller, uid, name) ==
    [Kind |-> kind, APIVersion |-> apiVersion, Controller |-> controller,
     UID |-> uid, Name |-> name]

\* An owner reference a chart template may write on its own.
TemplateOwner == OwnerReference("ConfigMap", "v1", FALSE, "uid-0", "legacy")

\* One template of the chart.  nsMode: "release" renders .Release.Namespace,
\* "fixed" a hard-wired namespace, "none" no namespace; needsPorts: the
\* template fails (required value) when the port list is empty.
Template(shape, gvk, nsMode, owners, convertible, needsPorts) ==
    [shape |-> shape, gvk |-> gvk, nsMode |-> nsMode, ownerReferences |-> owners,
     convertible |-> convertible, needsPorts |-> needsPorts]

EmptyTemplate     == Template("empty", EmptyGVK, "none", <<>>, FALSE, FALSE)
MalformedTemplate == Template("malformed", EmptyGVK, "none", <<>>, FALSE, FALSE)

\* The charts NewDeployer may have loaded.
ChartMixed ==
    <<Template("object", DeploymentGVK, "release", <<>>, TRUE, FALSE),
      EmptyTemplate,
      Template("object", ServiceGVK, "fixed", <<TemplateOwner>>, TRUE, FALSE),
      Template("object", WidgetGVK, "none", <<>>, FALSE, FALSE)>>
ChartRepeats ==
    <<Template("object", DeploymentGVK, "none", <<>>, TRUE, FALSE),
      Template("object", OldDeployGVK, "fixed", <<TemplateOwner>>, TRUE, FALSE),
      Template("object", DeploymentGVK, "none", <<>>, TRUE, FALSE)>>
ChartRequired ==
    <<Template("object", ServiceGVK, "release", <<>>, FALSE, TRUE),
      Template("object", DeploymentGVK, "release", <<>>, TRUE, FALSE)>>
ChartBroken ==
    <<Template("object", DeploymentGVK, "release", <<>>, TRUE, FALSE),
      MalformedTemplate>>
Charts == {ChartMixed, ChartRepeats, ChartRequired, ChartBroken}

\* Values of the image override the deployer specification moves between.
EnvValues == {<<>>, <<"r", ":", "t">>}

\* The value set renderChartToObjects hands to helm.
helmVals(g, in, img, ports) ==
    LET base ==
          [controlPlane |-> [enabled |-> FALSE],
           gateway |->
             [enabled |-> TRUE, name |-> g.Name, gatewayName |-> g.Name,
              ports |-> ports,
              service |-> [type |-> "LoadBalancer"],
              istioSDS |-> [enabled |-> in.SDSEnabled],
              xds |-> [host |-> "gloo.gloo-system.svc.cluster.local", port |-> in.Port],
              image |-> getDeployerImageValues(img)]]
    IN  IF in.Dev THEN base @@ [develop |-> TRUE] ELSE base

\* helm's error for a template that fails to execute.
TemplateError ==
    [chain |-> <<"execution error at (gloo-gateway/templates/service.yaml)">>,
     mentions |-> {"gloo-gateway/templates/service.yaml"}]

ReleaseExistsError ==
    [chain |-> <<"cannot re-use a name that is still in use">>, mentions |-> {}]

\* The manifest helm renders from chart c for release (name, ns) and vals.
Manifest(c, name, ns, vals) ==
    [i \in 1..Len(c) |->
        IF c[i].shape # "object"
        THEN Document(c[i].shape, EmptyGVK, "", "", <<>>, FALSE, "")
        ELSE Document("object", c[i].gvk, name,
                      CASE c[i].nsMode = "release" -> ns
                        [] c[i].nsMode = "fixed"   -> "gloo-system"
                        [] OTHER                   -> "",
                      c[i].ownerReferences, c[i].convertible, vals)]

TemplateFails(c, vals) ==
    \E i \in 1..Len(c) : c[i].needsPorts /\ vals.gateway.ports = <<>>

\* Mutant: the release storage is kept across Render calls.
SharedMemory == releases

\* driver.NewMemory(): a fresh, empty release storage.
NewMemory == {}

\* Deployer.Render.  Returns the objects, the error and the release storage
\* the call leaves behind.
Render(c, name, ns, vals) ==
    LET mem == NewMemory
    IN  IF <<ns, name>> \in mem
        THEN [objs |-> <<>>, mem |-> mem,
              err |-> Wrap("failed to render helm chart", {}, ReleaseExistsError)]
        ELSE IF TemplateFails(c, vals)
        THEN [objs |-> <<>>, mem |-> mem,
              err |-> Wrap("failed to render helm chart", {}, TemplateError)]
        ELSE LET r == ConvertYAMLToObjects(scheme, Manifest(c, name, ns, vals))
             IN  IF r.err # NoErr
                 THEN [objs |-> <<>>, mem |-> mem \cup {<<ns, name>>},
                       err |-> Wrap("failed to convert yaml to objects", {}, r.err)]
                 ELSE [objs |-> r.objs, mem |-> mem \cup {<<ns, name>>}, err |-> NoErr]

\* Mutant: the namespace is filled in only where the template left it empty.
SetNamespaceIfEmpty(obj, ns) ==
    IF obj.namespace = "" THEN [obj EXCEPT !.namespace = ns] ELSE obj

\* obj.SetNamespace(ns)
SetNamespace(obj, ns) == [obj EXCEPT !.namespace = ns]

\* Deployer.renderChartToObjects
renderChartToObjects(c, in, img, g) ==
    LET vals == helmVals(g, in, img, jsonConvert(gwPortsOf(g.Listeners)))
        r    == Render(c, g.Name, g.Namespace, vals)
    IN  IF r.err # NoErr
        THEN r
        ELSE [r EXCEPT !.objs = [i \in 1..Len(r.objs) |-> SetNamespace(r.objs[i], g.Namespace)]]

\* Mutant: the owner reference is added to those the object already has.
AddOwnerReferences(obj, refs) ==
    [obj EXCEPT !.ownerReferences = obj.ownerReferences \o refs]

\* obj.SetOwnerReferences(refs)
SetOwnerReferences(obj, refs) == [obj EXCEPT !.ownerReferences = refs]

\* Deployer.GetObjsToDeploy
GetObjsToDeploy(c, in, img, g) ==
    LET r == renderChartToObjects(c, in, img, g)
    IN  IF r.err # NoErr
        THEN [r EXCEPT !.err = Wrap("failed to get objects to deploy", {}, r.err)]
        ELSE [r EXCEPT !.objs =
                [i \in 1..Len(r.objs) |->
                    SetOwnerReferences(r.objs[i],
                        <<OwnerReference(g.Kind, g.APIVersion, TRUE, g.UID, g.Name)>>)]]

\* Mutant: discovery goes through the deploy path.
watchObjsViaDeployPath(c, in, img) == GetObjsToDeploy(c, in, img, fakeGw)

\* The render of GetGvksToWatch.
watchObjs(c, in, img) == renderChartToObjects(c, in, img, fakeGw)

\* The collection loop of GetGvksToWatch, from object i on.
RECURSIVE gvksLoop(_, _, _)
gvksLoop(os, i, ret) ==
    IF i > Len(os)
    THEN ret
    ELSE IF \E k \in 1..Len(ret) : ret[k] = os[i].gvk
         THEN gvksLoop(os, i + 1, ret)
         ELSE gvksLoop(os, i + 1, Append(ret, os[i].gvk))

\* ----------------------------------------------------------------- cluster
ObjectKey(obj) == <<obj.gvk, obj.namespace, obj.name>>

\* cli.Patch(obj, client.Apply, client.ForceOwnership) accepted by the server.
Patch(cl, obj) == {o \in cl : ObjectKey(o) # ObjectKey(obj)} \cup {obj}

PatchError == [chain |-> <<"patch rejected">>, mentions |-> {}]

\* Mutant: a failed Patch is tried again.
DeployObjsNextRetry(i, n, ok) ==
    IF ~ok THEN i ELSE IF i = n THEN 0 ELSE i + 1

\* The loop of DeployObjs after Patch of object i of n answered: the next
\* object to patch, or 0 when the method returns.
DeployObjsNext(i, n, ok) ==
    IF ~ok THEN 0 ELSE IF i = n THEN 0 ELSE i + 1

\* ============================================================ idle values
NoRegistry == [routePlugins |-> <<>>, postTranslationPlugins |-> <<>>]
NoYamlRet  == [objs |-> <<>>, err |-> NoErr]
NoInputs   == [ControllerName |-> "", Dev |-> FALSE, Port |-> 0, SDSEnabled |-> FALSE]

RegistryIdle == allPlugins = <<>> /\ registry = NoRegistry
ImageIdle    == image = <<>> /\ imageValues = defaultImageValues
PortsIdle    == listeners = <<>> /\ portsAny = <<>>
YamlIdle     == yamlData = <<>> /\ yamlRet = NoYamlRet
DeployIdle   ==
    /\ chart = <<>> /\ inputs = NoInputs /\ env = <<>> /\ releases = {}
    /\ op = "none" /\ gw = fakeGw /\ objs = <<>> /\ err = NoErr /\ idx = 0
    /\ patchLog = <<>> /\ cluster = {} /\ gvks = <<>> /\ history = <<>>

\* ====================================================== SpecRegistry
InitRegistry ==
    /\ pc = "start"
    /\ allPlugins \in SeqsUpTo(Plugins, MaxPlugins)
    /\ registry = NoRegistry
    /\ ImageIdle /\ PortsIdle /\ YamlIdle /\ DeployIdle

CallNewPluginRegistry ==
    /\ pc = "start"
    /\ registry' = NewPluginRegistry(allPlugins)
    /\ pc' = "done"
    /\ UNCHANGED <<allPlugins, imageVars, portVars, yamlVars, deployVars>>

NextRegistry == CallNewPluginRegistry

SpecRegistry == InitRegistry /\ [][NextRegistry]_vars

\* ====================================================== SpecImage
InitImage ==
    /\ pc = "start"
    /\ image \in SeqsUpTo(Chars, MaxImageLen)
    /\ imageValues = defaultImageValues
    /\ RegistryIdle /\ PortsIdle /\ YamlIdle /\ DeployIdle

CallGetDeployerImageValues ==
    /\ pc = "start"
    /\ imageValues' = getDeployerImageValues(image)
    /\ pc' = "done"
    /\ UNCHANGED <<image, registryVars, portVars, yamlVars, deployVars>>

NextImage == CallGetDeployerImageValues

SpecImage == InitImage /\ [][NextImage]_vars

\* ====================================================== SpecPorts
InitPorts ==
    /\ pc = "start"
    /\ listeners \in SeqsUpTo(Listeners, MaxListeners)
    /\ portsAny = <<>>
    /\ RegistryIdle /\ ImageIdle /\ YamlIdle /\ DeployIdle

\* The port derivation of renderChartToObjects up to the "ports" value.
DerivePorts ==
    /\ pc = "start"
    /\ portsAny' = jsonConvert(gwPortsOf(listeners))
    /\ pc' = "done"
    /\ UNCHANGED <<listeners, registryVars, imageVars, yamlVars, deployVars>>

NextPorts == DerivePorts

SpecPorts == InitPorts /\ [][NextPorts]_vars

\* ====================================================== SpecYaml
\* The documents the decoder is run on.
YamlDocs ==
    {EmptyDocument, MalformedDocument,
     Document("object", DeploymentGVK, "d", "ns1", <<>>, TRUE, ""),
     Document("object", ServiceGVK, "s", "", <<>>, FALSE, ""),
     Document("object", StatusGVK, "st", "ns1", <<>>, TRUE, ""),
     Document("object", WidgetGVK, "w", "ns2", <<>>, FALSE, "")}

InitYaml ==
    /\ pc = "start"
    /\ yamlData \in SeqsUpTo(YamlDocs, MaxDocs)
    /\ yamlRet = NoYamlRet
    /\ RegistryIdle /\ ImageIdle /\ PortsIdle /\ DeployIdle

CallConvertYAMLToObjects ==
    /\ pc = "start"
    /\ yamlRet' = ConvertYAMLToObjects(scheme, yamlData)
    /\ pc' = "done"
    /\ UNCHANGED <<yamlData, registryVars, imageVars, portVars, deployVars>>

NextYaml == CallConvertYAMLToObjects

SpecYaml == InitYaml /\ [][NextYaml]_vars

\* ====================================================== Spec (the deployer)
DeployerInputs ==
    {[ControllerName |-> "gloo-gateway", Dev |-> TRUE, Port |-> 9977, SDSEnabled |-> FALSE]}

\* NewDeployer has returned: the chart is loaded, nothing was rendered yet.
Init ==
    /\ pc = "idle"
    /\ chart \in Charts
    /\ inputs \in DeployerInputs
    /\ env \in EnvValues
    /\ releases = {}
    /\ op = "none" /\ gw = fakeGw /\ objs = <<>> /\ err = NoErr /\ idx = 0
    /\ patchLog = <<>> /\ cluster = {} /\ gvks = <<>> /\ history = <<>>
    /\ RegistryIdle /\ ImageIdle /\ PortsIdle /\ YamlIdle

otherVars == <<registryVars, imageVars, portVars, yamlVars>>

\* What a finished Deploy leaves in the history.
DeployRecord(g, img, os, e, log, cl) ==
    [gw |-> g, env |-> img, objs |-> os, err |-> e,
     patchesOk |-> \A k \in 1..Len(log) : log[k].ok, cluster |-> cl]

\* The environment changes between two calls.
SetEnv(v) ==
    /\ pc = "idle"
    /\ v # env
    /\ env' = v
    /\ UNCHANGED <<pc, chart, inputs, releases, op, gw, objs, err, idx, patchLog,
                   cluster, gvks, history, otherVars>>

\* Deploy(gw, cli) up to the first Patch: GetObjsToDeploy, then the entry of
\* the DeployObjs loop.
Deploy(g) ==
    /\ pc = "idle"
    /\ Len(history) < MaxDeploys
    /\ LET r == GetObjsToDeploy(chart, inputs, env, g)
       IN  /\ op' = "Deploy"
           /\ gw' = g
           /\ releases' = r.mem
           /\ objs' = r.objs
           /\ err' = r.err
           /\ patchLog' = <<>>
           /\ IF r.err # NoErr \/ r.objs = <<>>
              THEN /\ pc' = "idle"
                   /\ idx' = 0
                   /\ history' = Append(history,
                          DeployRecord(g, env, r.objs, r.err, <<>>, cluster))
              ELSE /\ pc' = "patching"
                   /\ idx' = 1
                   /\ history' = history
    /\ UNCHANGED <<chart, inputs, env, cluster, gvks, otherVars>>

\* One turn of the DeployObjs loop: Patch of objs[idx] answers with success
\* or with an error; after the last object, or an error, DeployObjs returns.
DeployObjsStep ==
    /\ pc = "patching"
    /\ \E ok \in BOOLEAN :
        LET obj  == objs[idx]
            log  == Append(patchLog, [obj |-> obj, ok |-> ok])
            cl   == IF ok THEN Patch(cluster, obj) ELSE cluster
            e    == IF ok THEN NoErr
                    ELSE Wrap("failed to apply object", {obj.gvk[3], obj.name}, PatchError)
            next == DeployObjsNext(idx, Len(objs), ok)
        IN  /\ patchLog' = log
            /\ cluster' = cl
            /\ err' = e
            /\ idx' = next
            /\ IF next = 0
               THEN /\ pc' = "idle"
                    /\ history' = Append(history, DeployRecord(gw, env, objs, e, log, cl))
               ELSE /\ pc' = "patching"
                    /\ history' = history
    /\ UNCHANGED <<chart, inputs, env, releases, op, gw, objs, gvks, otherVars>>

\* GetGvksToWatch
GetGvksToWatch ==
    /\ pc = "idle"
    /\ LET r == watchObjs(chart, inputs, env)
       IN  /\ op' = "GetGvksToWatch"
           /\ gw' = fakeGw
           /\ releases' = r.mem
           /\ objs' = r.objs
           /\ err' = r.err
           /\ gvks' = IF r.err # NoErr THEN <<>> ELSE gvksLoop(r.objs, 1, <<>>)
    /\ UNCHANGED <<pc, chart, inputs, env, idx, patchLog, cluster, history, otherVars>>

Next ==
    \/ \E v \in EnvValues : SetEnv(v)
    \/ \E g \in Gateways : Deploy(g)
    \/ DeployObjsStep
    \/ GetGvksToWatch

Spec == Init /\ [][Next]_vars

\* ================================================================== claims
IsRoute(p) == p.route
IsPost(p)  == p.post
IsMalformed(d) == d.shape = "malformed"
IsNonEmpty(d)  == d.shape # "empty"
CountColons(s) == Cardinality({i \in 1..Len(s) : s[i] = ":"})
\* index of the first listener with port p
FirstListener(ls, p) == CHOOSE j \in 1..Len(ls) : ls[j].Port = p /\ \A k \in 1..(j - 1) : ls[k].Port # p
\* index of the first object with kind triple t
FirstOfGvk(os, t) == CHOOSE j \in 1..Len(os) : os[j].gvk = t /\ \A k \in 1..(j - 1) : os[k].gvk # t
OwnerOf(g) == OwnerReference(g.Kind, g.APIVersion, TRUE, g.UID, g.Name)
RenderFailed == \E k \in 1..Len(err.chain) : err.chain[k] = "failed to render helm chart"

\* C1: the Patch calls DeployObjs has issued are a prefix of objs in order,
\* one call per position; only the last call issued can have failed; a failed
\* Patch ends the call with an error naming the object and nothing after it
\* is patched; without a failure every object is patched and nil is returned;
\* every object patched successfully is still applied in the cluster.
C1_PatchPrefix ==
    op = "Deploy" =>
        /\ Len(patchLog) <= Len(objs)
        /\ \A k \in 1..Len(patchLog) : patchLog[k].obj = objs[k]
        /\ \A k \in 1..(Len(patchLog) - 1) : patchLog[k].ok
        /\ \A k \in 1..Len(patchLog) : patchLog[k].ok => patchLog[k].obj \in cluster
        /\ (pc = "idle" /\ patchLog # <<>> /\ ~patchLog[Len(patchLog)].ok) =>
               /\ err # NoErr
               /\ err.chain[1] = "failed to apply object"
               /\ objs[Len(patchLog)].name \in err.mentions
        /\ (pc = "idle" /\ objs # <<>> /\ \A k \in 1..Len(patchLog) : patchLog[k].ok) =>
               /\ err = NoErr
               /\ Len(patchLog) = Len(objs)
        /\ pc = "patching" => (idx = Len(patchLog) + 1 /\ \A k \in 1..Len(patchLog) : patchLog[k].ok)

C1_Witness ==
    /\ op = "Deploy" /\ pc = "idle"
    /\ Len(objs) = 3 /\ Len(patchLog) = 2
    /\ patchLog[1].ok /\ ~patchLog[2].ok
    /\ err # NoErr
    /\ patchLog[1].obj \in cluster

C3_SingleOwner ==
    op = "Deploy" =>
        /\ \A i \in 1..Len(objs) : objs[i].ownerReferences = <<OwnerOf(gw)>>
        /\ \A k \in 1..Len(patchLog) : patchLog[k].obj.ownerReferences = <<OwnerOf(gw)>>

C3_Witness ==
    /\ op = "Deploy" /\ gw = GwWeb /\ chart = ChartRepeats
    /\ chart[2].ownerReferences = <<TemplateOwner>>
    /\ Len(objs) = 3 /\ Len(patchLog) = 3
    /\ objs[2].ownerReferences = <<OwnerReference("Gateway", "gateway.networking.k8s.io/v1",
                                                   TRUE, "uid-1", "web")>>

\* C4: every object GetObjsToDeploy returned for gw, and every object Deploy
\* passed to Patch, has gw's namespace, whatever namespace the template wrote.
C4_Namespace ==
    op = "Deploy" =>
        /\ \A i \in 1..Len(objs) : objs[i].namespace = gw.Namespace
        /\ \A k \in 1..Len(patchLog) : patchLog[k].obj.namespace = gw.Namespace

C4_Witness ==
    /\ op = "Deploy" /\ gw = GwWeb /\ chart = ChartMixed
    /\ chart[3].nsMode = "fixed" /\ chart[4].nsMode = "none"
    /\ Len(objs) = 3 /\ Len(patchLog) = 3
    /\ \A k \in 1..3 : patchLog[k].obj.namespace = "ns1"

\* C5: the derived port list has pairwise distinct ports, one entry per
\* distinct listener port in order of first occurrence, each named after the
\* first listener with that port, protocol "TCP", targetPort TranslatePort(port).
C5_PortList ==
    pc = "done" =>
        /\ \A i, j \in 1..Len(portsAny) : i # j => portsAny[i].port # portsAny[j].port
        /\ {portsAny[i].port : i \in 1..Len(portsAny)} =
               {listeners[j].Port : j \in 1..Len(listeners)}
        /\ \A i, j \in 1..Len(portsAny) :
               i < j => FirstListener(listeners, portsAny[i].port)
                          < FirstListener(listeners, portsAny[j].port)
        /\ \A i \in 1..Len(portsAny) :
               /\ portsAny[i].name = listeners[FirstListener(listeners, portsAny[i].port)].Name
               /\ portsAny[i].protocol = "TCP"
               /\ portsAny[i].targetPort = TranslatePort(portsAny[i].port)

C5_Witness ==
    /\ pc = "done"
    /\ listeners = <<Listener(80, "a"), Listener(80, "b"), Listener(443, "c")>>
    /\ portsAny = <<[port |-> 80, protocol |-> "TCP", name |-> "a", targetPort |-> 8080],
                    [port |-> 443, protocol |-> "TCP", name |-> "c", targetPort |-> 8443]>>

\* C6: a failed render ends the call with an error and no objects, and the
\* error names the namespace and the name of the render target.
C6_RenderErrorNamesTarget ==
    (pc = "idle" /\ RenderFailed) =>
        /\ objs = <<>>
        /\ {gw.Name, gw.Namespace} \subseteq err.mentions

\* C7: ConvertYAMLToObjects returns an error and no objects when a document is
\* malformed; otherwise one object per non-empty document, in document order,
\* typed when the scheme knows the kind and the conversion succeeds, generic
\* otherwise.
C7_Decode ==
    pc = "done" =>
        IF \E i \in 1..Len(yamlData) : IsMalformed(yamlData[i])
        THEN yamlRet.err # NoErr /\ yamlRet.objs = <<>>
        ELSE LET kept == SelectSeq(yamlData, IsNonEmpty)
             IN  /\ yamlRet.err = NoErr
                 /\ Len(yamlRet.objs) = Len(kept)
                 /\ \A i \in 1..Len(kept) :
                        /\ yamlRet.objs[i].name = kept[i].name
                        /\ yamlRet.objs[i].gvk = kept[i].gvk
                        /\ yamlRet.objs[i].namespace = kept[i].namespace
                        /\ yamlRet.objs[i].typed <=>
                               ( /\ kept[i].gvk \in scheme.known
                                 /\ kept[i].gvk \in scheme.clientObjects
                                 /\ kept[i].convertible )

C7_Witness ==
    /\ pc = "done"
    /\ Len(yamlData) = 3
    /\ yamlData[1].gvk = DeploymentGVK /\ yamlData[2] = EmptyDocument
    /\ yamlData[3].gvk = WidgetGVK
    /\ Len(yamlRet.objs) = 2
    /\ yamlRet.objs[1].typed /\ yamlRet.objs[1].gvk = DeploymentGVK
    /\ ~yamlRet.objs[2].typed /\ yamlRet.objs[2].gvk = WidgetGVK

\* C8: the registry's route plugins are the input plugins with the route
\* capability, its post-translation plugins those with the post-translation
\* capability, both in registration order.
C8_Classification ==
    pc = "done" =>
        /\ GetRoutePlugins(registry) = SelectSeq(allPlugins, IsRoute)
        /\ GetPostTranslationPlugins(registry) = SelectSeq(allPlugins, IsPost)

C8_Witness ==
    /\ pc = "done"
    /\ allPlugins = <<PluginA, PluginB, PluginC>>
    /\ GetRoutePlugins(registry) = <<PluginA, PluginB>>
    /\ GetPostTranslationPlugins(registry) = <<PluginB>>

\* C9: the image values are {repository: r, tag: t} exactly when the override
\* holds exactly one ':' (r before it, t after it); every other override,
\* the empty one included, yields the defaults: empty tag, no repository.
C9_ImageValues ==
    pc = "done" =>
        IF CountColons(image) = 1
        THEN /\ DOMAIN imageValues = {"repository", "tag"}
             /\ imageValues.repository \o <<":">> \o imageValues.tag = image
        ELSE /\ DOMAIN imageValues = {"tag"}
             /\ imageValues.tag = <<>>

C9_Witness ==
    /\ pc = "done"
    /\ image = <<"r", "r", ":", "t">>
    /\ imageValues = [repository |-> <<"r", "r">>, tag |-> <<"t">>]

\* C10: what GetGvksToWatch leaves behind.
GvksResult ==
    /\ gw = fakeGw
    /\ \A a, b \in 1..Len(gvks) : a # b => gvks[a] # gvks[b]
    /\ {gvks[a] : a \in 1..Len(gvks)} = {objs[i].gvk : i \in 1..Len(objs)}
    /\ \A a, b \in 1..Len(gvks) : a < b => FirstOfGvk(objs, gvks[a]) < FirstOfGvk(objs, gvks[b])
    /\ \A i \in 1..Len(objs) : \A k \in 1..Len(objs[i].ownerReferences) :
           /\ objs[i].ownerReferences[k] # OwnerOf(fakeGw)
           /\ \E t \in 1..Len(chart) : objs[i].ownerReferences = chart[t].ownerReferences

\* C10: GetGvksToWatch returns the kind triples of the objects rendered for
\* the synthetic descriptor, without repetition and in order of first
\* appearance; the step issues no Patch, leaves the cluster as it was and
\* stamps no owner reference on the rendered objects.
C10_GvksReadOnly ==
    [][op' = "GetGvksToWatch" =>
          /\ cluster' = cluster
          /\ patchLog' = patchLog
          /\ history' = history
          /\ GvksResult']_vars

C10_Witness ==
    /\ op = "GetGvksToWatch" /\ err = NoErr
    /\ chart = ChartRepeats
    /\ Len(objs) = 3
    /\ gvks = <<DeploymentGVK, OldDeployGVK>>
    /\ objs[2].ownerReferences = <<TemplateOwner>>
    /\ cluster # {}

====
